---- MODULE Spec2Model ----
(***************************************************************************)
(* A model of parallel_vec's ParallelVecParam (src/src/param.rs): the      *)
(* layout calculator, the raw storage handle, the per-arity field accessor *)
(* protocol and the conversion from per-field Vecs, together with the      *)
(* growable container that drives them.                                    *)
(*                                                                         *)
(* Memory is modelled byte by byte.  A block of the heap is a sequence of  *)
(* cells, one per byte; an element e (a positive integer) of a type of     *)
(* size s occupies s consecutive cells: e in its first byte and -e in the  *)
(* others.  0 is an uninitialised byte.  A pointer is a block id and a     *)
(* byte offset into it; block 0 is "no allocation" (null and the dangling  *)
(* sentinels).                                                             *)
(***************************************************************************)
EXTENDS Integers, Sequences, FiniteSets, TLC

VARIABLES
    T,          \* the container's parameter tuple: a sequence of field types
    phase,      \* where the program is in the container's life
    storage,    \* ParallelVec.storage : Param::Storage, one pointer per field
    len,        \* ParallelVec.len
    capacity,   \* ParallelVec.capacity
    heap,       \* the allocator's blocks, and whether undefined behaviour happened
    vecs,       \* the per-field Vecs the caller hands to try_from
    outVecs,    \* the per-field Vecs a conversion back produced
    result,     \* what try_from returned
    nextRow,    \* the next fresh row of elements
    drops,      \* how many times each element's destructor has run
    hist,       \* the rows the caller put in and took out, and the last call
    lparam,     \* layout calculator: the parameter tuple
    lcap,       \* layout calculator: the requested capacity
    lout        \* layout calculator: what layout_for_capacity did

vars == <<T, phase, storage, len, capacity, heap, vecs, outVecs, result,
          nextRow, drops, hist, lparam, lcap, lout>>

cvars == <<T, phase, storage, len, capacity, heap, vecs, outVecs, result,
           nextRow, drops, hist>>

lvars == <<lparam, lcap, lout>>

-----------------------------------------------------------------------------
(* Bounds of the model *)

\* width of usize in bits (the model's address space is scaled down)
UsizeBits == 8
\* largest ordinary capacity handed to with_capacity / layout_for_capacity
MaxCap == 3
\* rows the caller creates over the container's life
MaxRows == 3
\* longest per-field Vec handed to try_from
MaxVecLen == 2
\* blocks the allocator hands out over the run
MaxBlocks == 6

\* the largest arity the crate implements ParallelVecParam for
MaxArity == 12
\* the smallest
MinArity == 2

RECURSIVE Pow2(_)
Pow2(n) == IF n = 0 THEN 1 ELSE 2 * Pow2(n - 1)

UsizeMax == Pow2(UsizeBits) - 1
IsizeMax == Pow2(UsizeBits - 1) - 1

Max(a, b) == IF a >= b THEN a ELSE b

-----------------------------------------------------------------------------
(* Field types: size_of and align_of *)

ZST == [size |-> 0, align |-> 1]
U8  == [size |-> 1, align |-> 1]
U16 == [size |-> 2, align |-> 2]
U32 == [size |-> 4, align |-> 4]

-----------------------------------------------------------------------------
(* core::alloc::Layout, as layout_for_capacity uses it *)

\* Layout::array::<T>(n): Err when n * size_of::<T>() exceeds
\* isize::MAX - (align - 1)
LayoutArray(ty, n) ==
    IF ty.size # 0 /\ n > (IsizeMax - (ty.align - 1)) \div ty.size
    THEN [ok |-> FALSE, size |-> 0, align |-> ty.align]
    ELSE [ok |-> TRUE, size |-> ty.size * n, align |-> ty.align]

\* Layout::padding_needed_for
PaddingNeededFor(size, align) == (align - (size % align)) % align

\* self.extend(next): (combined layout, offset of next), Err on overflow
LayoutExtend(self, next) ==
    LET new_align == Max(self.align, next.align)
        offset    == self.size + PaddingNeededFor(self.size, next.align)
        new_size  == offset + next.size
    IN  IF offset > UsizeMax \/ new_size > UsizeMax
           \/ new_size > IsizeMax - (new_align - 1)
        THEN [ok |-> FALSE, size |-> 0, align |-> new_align, offset |-> 0]
        ELSE [ok |-> TRUE, size |-> new_size, align |-> new_align,
              offset |-> offset]

\* a repetition that extends the first field's layout every time, the
\* running layout never rebound
RECURSIVE LayoutPrefixUnshadowed(_, _, _)
LayoutPrefixUnshadowed(P, cap, k) ==
    IF k = 1
    THEN LET a == LayoutArray(P[1], cap)
         IN  [ok |-> a.ok, size |-> a.size, align |-> a.align,
              offsets |-> <<0>>]
    ELSE LET prev  == LayoutPrefixUnshadowed(P, cap, k - 1)
             first == LayoutArray(P[1], cap)
             arr   == LayoutArray(P[k], cap)
             ext   == LayoutExtend(first, arr)
         IN  IF ~prev.ok \/ ~arr.ok \/ ~ext.ok
             THEN [ok |-> FALSE, size |-> 0, align |-> 1, offsets |-> <<>>]
             ELSE [ok |-> TRUE, size |-> Max(prev.size, ext.size),
                   align |-> ext.align,
                   offsets |-> Append(prev.offsets, ext.offset)]

\* The macro repetition of layout_for_capacity: the running layout after the
\* first k fields, with the offsets recorded so far.  ok = FALSE is the
\* panic of an unwrap() on Err.
RECURSIVE LayoutPrefix(_, _, _)
LayoutPrefix(P, cap, k) ==
    IF k = 1
    THEN LET a == LayoutArray(P[1], cap)
         IN  [ok |-> a.ok, size |-> a.size, align |-> a.align,
              offsets |-> <<0>>]
    ELSE LET prev == LayoutPrefix(P, cap, k - 1)
             arr  == LayoutArray(P[k], cap)
             ext  == LayoutExtend(prev, arr)
         IN  IF ~prev.ok \/ ~arr.ok \/ ~ext.ok
             THEN [ok |-> FALSE, size |-> 0, align |-> 1, offsets |-> <<>>]
             ELSE [ok |-> TRUE, size |-> ext.size, align |-> ext.align,
                   offsets |-> Append(prev.offsets, ext.offset)]

layout_for_capacity(P, cap) == LayoutPrefix(P, cap, Len(P))

-----------------------------------------------------------------------------
(* Memory: blocks of cells, pointers, elements *)

\* the element of field k in row r: row 3 of a 2-field container is (3, 30)
RECURSIVE Pow10(_)
Pow10(n) == IF n = 0 THEN 1 ELSE 10 * Pow10(n - 1)

Elem(r, k) == r * Pow10(k - 1)

Row(P, r) == [k \in 1 .. Len(P) |-> Elem(r, k)]

Ptr(b, o) == [blk |-> b, off |-> o]

NullPtr == Ptr(0, 0)

EmptyHeap == [blocks |-> <<>>, ub |-> FALSE]

Poison(h) == [h EXCEPT !.ub = TRUE]

IsBlock(h, b) == b \in 1 .. Len(h.blocks)

Live(h, b) == IsBlock(h, b) /\ h.blocks[b].status = "live"

\* the n bytes at p lie in one live block (an access of no bytes needs none)
ValidRange(h, p, n) ==
    n = 0 \/ (Live(h, p.blk) /\ p.off >= 0 /\ p.off + n <= h.blocks[p.blk].size)

\* the global allocator's alloc(layout): a fresh block of uninitialised bytes
NewBlock(h, size, align, by, cap) ==
    [h EXCEPT !.blocks = Append(@, [status |-> "live", size |-> size,
                                    align |-> align, by |-> by, cap |-> cap,
                                    frees |-> 0,
                                    mem |-> [i \in 1 .. size |-> 0]])]

\* the global allocator's dealloc(ptr, layout): ptr must be the start of a
\* live block that was allocated with this very layout
FreeBlock(h, p, size, align) ==
    IF IsBlock(h, p.blk)
    THEN LET b == h.blocks[p.blk]
             good == b.status = "live" /\ p.off = 0 /\ b.size = size
                     /\ b.align = align
         IN  [blocks |-> [h.blocks EXCEPT ![p.blk] =
                             [@ EXCEPT !.status = "freed", !.mem = <<>>,
                                       !.frees = @ + 1]],
              ub |-> h.ub \/ ~good]
    ELSE Poison(h)

\* the bytes [p.off, p.off + n) of p's block
Bytes(h, p, n) ==
    [i \in 1 .. n |-> h.blocks[p.blk].mem[p.off + i]]

StoreBytes(h, p, bs) ==
    [h EXCEPT !.blocks[p.blk].mem =
        [i \in DOMAIN @ |->
            IF i > p.off /\ i <= p.off + Len(bs) THEN bs[i - p.off] ELSE @[i]]]

\* the bytes of element e of type ty
ElemBytes(ty, e) == [i \in 1 .. ty.size |-> IF i = 1 THEN e ELSE -e]

\* ptr.read(): the element at p, or 0 when the bytes there are no element
ReadElem(h, p, ty) ==
    IF ty.size > 0 /\ ValidRange(h, p, ty.size)
    THEN LET bs == Bytes(h, p, ty.size)
         IN  IF bs[1] > 0 /\ bs = ElemBytes(ty, bs[1]) THEN bs[1] ELSE 0
    ELSE 0

\* ptr.write(e)
WriteElem(h, p, ty, e) ==
    IF ty.size = 0 THEN h
    ELSE IF ValidRange(h, p, ty.size) THEN StoreBytes(h, p, ElemBytes(ty, e))
    ELSE Poison(h)

Overlap(src, dst, n) ==
    /\ n > 0
    /\ src.blk = dst.blk
    /\ src.off < dst.off + n
    /\ dst.off < src.off + n

\* ptr::copy (memmove) of n bytes; ptr::copy_nonoverlapping when ~mayOverlap,
\* which is undefined on overlapping ranges
CopyBytes(h, src, dst, n, mayOverlap) ==
    IF n = 0 THEN h
    ELSE IF ValidRange(h, src, n) /\ ValidRange(h, dst, n)
    THEN LET h2 == StoreBytes(h, dst, Bytes(h, src, n))
         IN  IF ~mayOverlap /\ Overlap(src, dst, n) THEN Poison(h2) ELSE h2
    ELSE Poison(h)

-----------------------------------------------------------------------------
(* ParallelVecParam for the tuple T: the storage handle *)

N == Len(T)

Fields == 1 .. N

\* NonNull::dangling() per field: the field's alignment as an address
dangling == [k \in Fields |-> Ptr(0, T[k].align)]

\* NonNull::as_ptr per field: the same addresses
as_ptr(st) == [k \in Fields |-> Ptr(st[k].blk, st[k].off)]

\* alloc(capacity).  avail: whether the global allocator satisfies the
\* request.  status "panic": an unwrap() in layout_for_capacity panicked;
\* "null": the allocator returned null, and the pointers were derived from
\* it unchecked.
AllocLayout(h, cap, avail, layout) ==
    IF ~layout.ok
    THEN [status |-> "panic", heap |-> h, storage |-> dangling]
    ELSE [status  |-> IF avail THEN "ok" ELSE "null",
          heap    |-> IF avail /\ layout.size > 0
                      THEN NewBlock(h, layout.size, layout.align, "alloc", cap)
                      ELSE Poison(h),
          storage |-> [k \in Fields |->
                          Ptr(IF avail THEN Len(h.blocks) + 1 ELSE 0,
                              layout.offsets[k])]]

alloc(h, cap, avail) == AllocLayout(h, cap, avail, layout_for_capacity(T, cap))

DeallocLayout(h, st, layout) ==
    IF ~layout.ok
    THEN [status |-> "panic", heap |-> h]
    ELSE [status |-> "ok",
          heap |-> FreeBlock(h, st[1], layout.size, layout.align)]

\* a dealloc whose guard is off by one
dealloc_above_one(h, st, cap) ==
    IF cap > 1
    THEN DeallocLayout(h, st, layout_for_capacity(T, cap))
    ELSE [status |-> "ok", heap |-> h]

\* dealloc(storage, capacity)
dealloc(h, st, cap) ==
    IF cap > 0
    THEN DeallocLayout(h, st, layout_for_capacity(T, cap))
    ELSE [status |-> "ok", heap |-> h]

-----------------------------------------------------------------------------
(* ParallelVecParam for the tuple T: the field accessor protocol *)

add(base, offset) ==
    [k \in Fields |-> Ptr(base[k].blk, base[k].off + offset * T[k].size)]

RECURSIVE CopyFields(_, _, _, _, _, _)
CopyFields(h, src, dst, n, mayOverlap, k) ==
    IF k = 0 THEN h
    ELSE CopyBytes(CopyFields(h, src, dst, n, mayOverlap, k - 1),
                   src[k], dst[k], n * T[k].size, mayOverlap)

\* a copy_to that leaves the last field where it is
copy_to_but_last(h, src, dst, n) == CopyFields(h, src, dst, n, TRUE, N - 1)

copy_to(h, src, dst, n) == CopyFields(h, src, dst, n, TRUE, N)

\* a copy_to_nonoverlapping that leaves the last field behind
copy_to_nonoverlapping_but_last(h, src, dst, n) ==
    CopyFields(h, src, dst, n, FALSE, N - 1)

copy_to_nonoverlapping(h, src, dst, n) == CopyFields(h, src, dst, n, FALSE, N)

\* the values behind as_ref(ptr) / as_mut(ptr)
as_ref(h, ptr) == [k \in Fields |-> ReadElem(h, ptr[k], T[k])]

\* as_slices(ptr, len): per field, the len elements from ptr on
as_slices(h, ptr, n) ==
    [k \in Fields |-> [i \in 1 .. n |-> ReadElem(h, add(ptr, i - 1)[k], T[k])]]

\* a slice's elements in reverse order, as bytes
ReversedBytes(h, p, ty, n) ==
    [i \in 1 .. n * ty.size |->
        LET j == (i - 1) \div ty.size
            o == (i - 1) % ty.size
        IN  h.blocks[p.blk].mem[p.off + (n - 1 - j) * ty.size + o + 1]]

RECURSIVE ReverseFields(_, _, _, _)
ReverseFields(h, ptr, n, k) ==
    IF k = 0 THEN h
    ELSE LET h1 == ReverseFields(h, ptr, n, k - 1)
         IN  IF n * T[k].size = 0 THEN h1
             ELSE IF ValidRange(h1, ptr[k], n * T[k].size)
             THEN StoreBytes(h1, ptr[k], ReversedBytes(h1, ptr[k], T[k], n))
             ELSE Poison(h1)

\* a reverse of the first slice alone
reverse_first(h, ptr, n) == ReverseFields(h, ptr, n, 1)

\* reverse(slices), the slices being as_slices_mut(ptr, n)
reverse(h, ptr, n) == ReverseFields(h, ptr, n, N)

\* read(ptr): the row moved out of ptr (the bytes stay behind)
read(h, ptr) == [k \in Fields |-> ReadElem(h, ptr[k], T[k])]

RECURSIVE WriteFields(_, _, _, _)
WriteFields(h, ptr, value, k) ==
    IF k = 0 THEN h
    ELSE WriteElem(WriteFields(h, ptr, value, k - 1), ptr[k], T[k], value[k])

\* a write that leaves the last field out
write_but_last(h, ptr, value) == WriteFields(h, ptr, value, N - 1)

write(h, ptr, value) == WriteFields(h, ptr, value, N)

\* core::ptr::swap of one field
SwapElem(h, a, b, ty) ==
    IF ty.size = 0 THEN h
    ELSE IF ValidRange(h, a, ty.size) /\ ValidRange(h, b, ty.size)
    THEN LET ba == Bytes(h, a, ty.size)
             bb == Bytes(h, b, ty.size)
         IN  StoreBytes(StoreBytes(h, a, bb), b, ba)
    ELSE Poison(h)

RECURSIVE SwapFields(_, _, _, _)
SwapFields(h, a, b, k) ==
    IF k = 0 THEN h
    ELSE SwapElem(SwapFields(h, a, b, k - 1), b[k], a[k], T[k])

\* a swap that exchanges the first field only
swap_first(h, a, b) == SwapFields(h, a, b, 1)

swap(h, a, b) == SwapFields(h, a, b, N)

\* core::mem::drop of the values of a row: each destructor runs once more
RECURSIVE DropValues(_, _, _)
DropValues(d, value, k) ==
    IF k = 0 THEN d
    ELSE LET d1 == DropValues(d, value, k - 1)
         IN  IF value[k] \in DOMAIN d1
             THEN [d1 EXCEPT ![value[k]] = @ + 1]
             ELSE d1

\* a drop that runs the first field's destructor only
drop_first(h, d, ptr) ==
    LET value == read(h, ptr)
    IN  [heap  |-> IF value[1] \notin DOMAIN d THEN Poison(h) ELSE h,
         drops |-> DropValues(d, value, 1)]

\* drop(ptr): read the row, drop each of its fields.  Dropping bytes that
\* are no element is undefined.
drop(h, d, ptr) ==
    LET value == read(h, ptr)
    IN  [heap  |-> IF \E k \in Fields : value[k] \notin DOMAIN d
                   THEN Poison(h) ELSE h,
         drops |-> DropValues(d, value, N)]

-----------------------------------------------------------------------------
(* Vec<T>, as the conversion uses it *)

None == [some |-> FALSE, val |-> 0]

Some(v) == [some |-> TRUE, val |-> v]

\* the caller's Vec of field k holding n elements, in a buffer of its own
RECURSIVE FillVec(_, _, _, _, _)
FillVec(h, p, ty, k, n) ==
    IF n = 0 THEN h
    ELSE WriteElem(FillVec(h, p, ty, k, n - 1),
                   Ptr(p.blk, p.off + (n - 1) * ty.size), ty, Elem(n, k))

RECURSIVE MakeVecsFrom(_, _, _)
MakeVecsFrom(h, lens, k) ==
    IF k = 0 THEN [heap |-> h, v |-> <<>>]
    ELSE LET prev == MakeVecsFrom(h, lens, k - 1)
             n    == lens[k]
             p    == IF n = 0 THEN Ptr(0, T[k].align)
                     ELSE Ptr(Len(prev.heap.blocks) + 1, 0)
             h1   == IF n = 0 THEN prev.heap
                     ELSE NewBlock(prev.heap, n * T[k].size, T[k].align,
                                   "vec", n)
         IN  [heap |-> FillVec(h1, p, T[k], k, n),
              v    |-> Append(prev.v, [ptr |-> p, len |-> n, cap |-> n])]

\* the elements of a Vec, in order
VecElems(h, v, ty) ==
    [i \in 1 .. v.len |->
        ReadElem(h, Ptr(v.ptr.blk, v.ptr.off + (i - 1) * ty.size), ty)]

\* a get_vec_len that takes the first Vec's length for all of them
get_vec_len_first(vs) == Some(vs[1].len)

get_vec_len(vs) ==
    LET n == vs[1].len
    IN  IF \E k \in 2 .. Len(vs) : vs[k].len # n THEN None ELSE Some(n)

get_vec_ptrs(vs) == [k \in DOMAIN vs |-> vs[k].ptr]

\* the Vecs going out of scope: every element dropped, every buffer freed
RECURSIVE DropVecElems(_, _, _, _, _)
DropVecElems(h, d, v, ty, i) ==
    IF i = 0 THEN [heap |-> h, drops |-> d]
    ELSE LET prev == DropVecElems(h, d, v, ty, i - 1)
             e    == ReadElem(prev.heap,
                              Ptr(v.ptr.blk, v.ptr.off + (i - 1) * ty.size), ty)
         IN  [heap  |-> IF e \in DOMAIN d THEN prev.heap ELSE Poison(prev.heap),
              drops |-> IF e \in DOMAIN d
                        THEN [prev.drops EXCEPT ![e] = @ + 1]
                        ELSE prev.drops]

RECURSIVE DropVecs(_, _, _, _)
DropVecs(h, d, vs, k) ==
    IF k = 0 THEN [heap |-> h, drops |-> d]
    ELSE LET prev == DropVecs(h, d, vs, k - 1)
             el   == DropVecElems(prev.heap, prev.drops, vs[k], T[k], vs[k].len)
         IN  [heap  |-> IF vs[k].cap * T[k].size > 0
                        THEN FreeBlock(el.heap, vs[k].ptr,
                                       vs[k].cap * T[k].size, T[k].align)
                        ELSE el.heap,
              drops |-> el.drops]

-----------------------------------------------------------------------------
(* ParallelVec: the growable container over the protocol *)

\* the rows get(0) .. get(l - 1) of a container
Rows(h, st, l) == [i \in 1 .. l |-> as_ref(h, add(as_ptr(st), i - 1))]

new(h) ==
    [status |-> "ok", heap |-> h, storage |-> dangling, len |-> 0,
     capacity |-> 0]

\* the container over what alloc (a) or dealloc (d) returned
Allocated(a, l, cap) ==
    [status |-> a.status, heap |-> a.heap, storage |-> a.storage, len |-> l,
     capacity |-> cap]

Released(d, st, l, cap) ==
    [status |-> d.status, heap |-> d.heap, storage |-> st, len |-> l,
     capacity |-> cap]

with_capacity(h, n, avail) ==
    IF n = 0 THEN new(h) ELSE Allocated(alloc(h, n, avail), 0, n)

\* a growth policy that makes room for one more row
GrownCapacityByOne(cap) == cap + 1

\* a growth policy that stops doubling after the first step
GrownCapacityStuck(cap) == IF cap = 0 THEN 1 ELSE cap

GrownCapacity(cap) == IF cap = 0 THEN 1 ELSE 2 * cap

\* growth: allocate, copy the live rows over, free the old allocation
GrowInto(a, st, l, cap) ==
    IF a.status # "ok"
    THEN Allocated(a, l, GrownCapacity(cap))
    ELSE Released(dealloc(copy_to_nonoverlapping(a.heap, as_ptr(st),
                                                 as_ptr(a.storage), l),
                          st, cap),
                  a.storage, l, GrownCapacity(cap))

grow(h, st, l, cap, avail) ==
    GrowInto(alloc(h, GrownCapacity(cap), avail), st, l, cap)

Self == [status |-> "ok", heap |-> heap, storage |-> storage, len |-> len,
         capacity |-> capacity]

\* grow first when full
reserve_one(avail) ==
    IF len = capacity THEN grow(heap, storage, len, capacity, avail) ELSE Self

\* g: the container after reserve_one
PushInto(g, value) ==
    IF g.status # "ok" THEN g
    ELSE [g EXCEPT !.heap = write(@, add(as_ptr(g.storage), len), value),
                   !.len = len + 1]

push(value, avail) == PushInto(reserve_one(avail), value)

ShiftWrite(h, ptr, n, value) == write(copy_to(h, ptr, add(ptr, 1), n), ptr, value)

InsertInto(g, i, value) ==
    IF g.status # "ok" THEN g
    ELSE [g EXCEPT !.heap = ShiftWrite(@, add(as_ptr(g.storage), i), len - i,
                                       value),
                   !.len = len + 1]

insert(i, value, avail) == InsertInto(reserve_one(avail), i, value)

pop == [Self EXCEPT !.len = len - 1]

remove(i) ==
    LET ptr == add(as_ptr(storage), i)
    IN  [Self EXCEPT !.heap = copy_to(heap, add(ptr, 1), ptr, len - i - 1),
                     !.len = len - 1]

swap_remove(i) ==
    LET ptr  == add(as_ptr(storage), i)
        last == add(as_ptr(storage), len - 1)
    IN  [Self EXCEPT !.heap = IF i # len - 1 THEN swap(heap, ptr, last) ELSE heap,
                     !.len = len - 1]

\* the row swap_remove hands back: the one at the tail after the exchange
swap_removed(i) == read(swap_remove(i).heap, add(as_ptr(storage), len - 1))

get(i) == IF i < len THEN as_ref(heap, add(as_ptr(storage), i)) ELSE <<>>

\* the row view handed out for writing: the same places, nothing written yet
get_mut(i) == IF i < len THEN as_ref(heap, add(as_ptr(storage), i)) ELSE <<>>

\* teardown: drop the rows [0, n), then free the allocation
RECURSIVE DropRows(_, _, _, _)
DropRows(h, d, st, n) ==
    IF n = 0 THEN [heap |-> h, drops |-> d]
    ELSE LET prev == DropRows(h, d, st, n - 1)
         IN  drop(prev.heap, prev.drops, add(as_ptr(st), n - 1))

Torn(d, dr) == [status |-> d.status, heap |-> d.heap, drops |-> dr]

TearDown(dr) == Torn(dealloc(dr.heap, storage, capacity), dr.drops)

teardown == TearDown(DropRows(heap, drops, storage, len))

\* TryFrom<(Vec<T1>, ...)>::try_from(vecs)
\* the Some branch: the elements copied into parallel_vec, the Vecs
\* forgotten
MoveVecsInto(parallel_vec, vs, n) ==
    IF parallel_vec.status # "ok"
    THEN [pv |-> parallel_vec, result |-> "none", drops |-> drops,
          vecs |-> "moved"]
    ELSE [pv |-> [parallel_vec EXCEPT !.heap =
                     copy_to_nonoverlapping(@, get_vec_ptrs(vs),
                                            as_ptr(parallel_vec.storage), n)],
          result |-> "Ok", drops |-> drops, vecs |-> "forgotten"]

\* the None branch: Err(UnevenLengths), the Vecs dropped on the way out
Uneven(dv) ==
    [pv |-> [status |-> "ok", heap |-> dv.heap, storage |-> <<>>, len |-> 0,
             capacity |-> 0],
     result |-> "UnevenLengths", drops |-> dv.drops, vecs |-> "dropped"]

TryFromLen(vs, avail, l) ==
    IF l.some
    THEN MoveVecsInto(with_capacity(heap, l.val, avail), vs, l.val)
    ELSE Uneven(DropVecs(heap, drops, vs, Len(vs)))

try_from(vs, avail) == TryFromLen(vs, avail, get_vec_len(vs))

\* the container turned back into one Vec per field: a fresh buffer per
\* field, the live elements moved over, the container's allocation freed
RECURSIVE MoveOut(_, _, _, _)
MoveOut(h, st, l, k) ==
    IF k = 0 THEN [heap |-> h, v |-> <<>>]
    ELSE LET prev == MoveOut(h, st, l, k - 1)
             p    == IF l = 0 THEN Ptr(0, T[k].align)
                     ELSE Ptr(Len(prev.heap.blocks) + 1, 0)
             h1   == IF l = 0 THEN prev.heap
                     ELSE NewBlock(prev.heap, l * T[k].size, T[k].align,
                                   "vec", l)
         IN  [heap |-> CopyBytes(h1, as_ptr(st)[k], p, l * T[k].size, FALSE),
              v    |-> Append(prev.v, [ptr |-> p, len |-> l, cap |-> l])]

Handed(d, v) == [status |-> d.status, heap |-> d.heap, v |-> v]

HandOver(m) == Handed(dealloc(m.heap, storage, capacity), m.v)

into_vecs == HandOver(MoveOut(heap, storage, len, N))

-----------------------------------------------------------------------------
(* The program: one container, from construction to teardown *)

\* the parameter tuples the container is run with
ContainerParams == {<<U8, U16>>, <<U16, U8, U16>>}

AllElems == {Elem(r, k) : r \in 1 .. MaxRows, k \in Fields}

\* what a null from the allocator leads to: the unchecked NonNull of a null
\* pointer either trips the build's precondition check (abort) or goes by
FailureOutcomes == {"aborted", "null_storage"}

\* the allocator's possible answers to a call that allocates when `asks`
Answers(asks) == IF asks THEN BOOLEAN ELSE {TRUE}

Outcomes(avail) == IF avail THEN {"aborted"} ELSE FailureOutcomes

NoCall == [onlyPush |-> FALSE, pushed |-> <<>>, fromVecs |-> FALSE,
           out |-> {}, op |-> "none", idx |-> 0, ret |-> <<>>,
           unreversed |-> <<>>]

Init ==
    /\ T \in ContainerParams
    /\ phase = "start"
    /\ storage = <<>>
    /\ len = 0
    /\ capacity = 0
    /\ heap = EmptyHeap
    /\ vecs = [state |-> "none", v |-> <<>>, input |-> <<>>]
    /\ outVecs = <<>>
    /\ result = "none"
    /\ nextRow = 1
    /\ drops = [e \in AllElems |-> 0]
    /\ hist = NoCall
    /\ lparam = <<>>
    /\ lcap = 0
    /\ lout = [called |-> FALSE, ok |-> FALSE, size |-> 0, align |-> 1,
               offsets |-> <<>>]

\* the call recorded in hist (unreversed: the rows before the call, kept
\* for a reverse only)
Called(op, i, ret) ==
    [hist EXCEPT !.op = op, !.idx = i, !.ret = ret, !.unreversed = <<>>]

\* the state a call that may allocate leaves behind
Commit(r, oc, hh, okPhase) ==
    /\ phase' = IF r.status = "ok" THEN okPhase
                ELSE IF r.status = "panic" THEN "panicked" ELSE oc
    /\ IF r.status = "ok" \/ (r.status = "null" /\ oc = "null_storage")
       THEN /\ heap' = r.heap
            /\ storage' = r.storage
            /\ len' = r.len
            /\ capacity' = r.capacity
       ELSE UNCHANGED <<heap, storage, len, capacity>>
    /\ hist' = IF r.status = "ok" THEN hh ELSE [hist EXCEPT !.op = hh.op, !.unreversed = <<>>]

New ==
    /\ phase = "start"
    /\ Commit(new(heap), "aborted",
              [Called("new", 0, <<>>) EXCEPT !.onlyPush = TRUE], "live")
    /\ UNCHANGED <<T, vecs, outVecs, result, nextRow, drops>>
    /\ UNCHANGED lvars

WithCapacity ==
    /\ phase = "start"
    /\ \E n \in (0 .. MaxCap) \cup {UsizeMax} :
       \E avail \in Answers(n > 0) : \E oc \in Outcomes(avail) :
          Commit(with_capacity(heap, n, avail), oc,
                 [Called("with_capacity", n, <<>>) EXCEPT !.onlyPush = TRUE],
                 "live")
    /\ UNCHANGED <<T, vecs, outVecs, result, nextRow, drops>>
    /\ UNCHANGED lvars

\* the caller builds one Vec per field
MakeVecs ==
    /\ phase = "start"
    /\ Len(heap.blocks) + N <= MaxBlocks
    /\ \E lens \in [Fields -> 0 .. MaxVecLen] :
       \E m \in {MakeVecsFrom(heap, lens, N)} :
              /\ heap' = m.heap
              /\ vecs' = [state |-> "caller", v |-> m.v,
                          input |-> [k \in Fields |->
                                        VecElems(m.heap, m.v[k], T[k])]]
              /\ nextRow' = 1 + CHOOSE n \in 0 .. MaxVecLen :
                                   /\ \E k \in Fields : lens[k] = n
                                   /\ \A k \in Fields : lens[k] <= n
    /\ phase' = "vecs"
    /\ UNCHANGED <<T, storage, len, capacity, outVecs, result, drops, hist>>
    /\ UNCHANGED lvars

TryFrom ==
    /\ phase = "vecs"
    /\ \E avail \in Answers(get_vec_len(vecs.v).some
                              /\ get_vec_len(vecs.v).val > 0) :
       \E oc \in Outcomes(avail) :
       \E r \in {try_from(vecs.v, avail)} :
              /\ Commit(r.pv, oc,
                        [Called("try_from", 0, <<>>) EXCEPT
                            !.fromVecs = (r.result = "Ok")],
                        IF r.result = "Ok" THEN "live" ELSE "failed")
              /\ result' = r.result
              /\ drops' = r.drops
              /\ vecs' = [vecs EXCEPT !.state = r.vecs]
    /\ UNCHANGED <<T, outVecs, nextRow>>
    /\ UNCHANGED lvars

Push ==
    /\ phase = "live"
    /\ nextRow <= MaxRows
    /\ len = capacity => Len(heap.blocks) < MaxBlocks
    /\ \E avail \in Answers(len = capacity) : \E oc \in Outcomes(avail) :
          Commit(push(Row(T, nextRow), avail), oc,
                 [Called("push", len, <<>>) EXCEPT
                     !.fromVecs = FALSE,
                     !.pushed = IF hist.onlyPush
                                THEN Append(@, Row(T, nextRow)) ELSE @],
                 "live")
    /\ nextRow' = nextRow + 1
    /\ UNCHANGED <<T, vecs, outVecs, result, drops>>
    /\ UNCHANGED lvars

Insert ==
    /\ phase = "live"
    /\ nextRow <= MaxRows
    /\ len = capacity => Len(heap.blocks) < MaxBlocks
    /\ \E i \in 0 .. len : \E avail \in Answers(len = capacity) :
       \E oc \in Outcomes(avail) :
          Commit(insert(i, Row(T, nextRow), avail), oc,
                 [Called("insert", i, <<>>) EXCEPT !.onlyPush = FALSE,
                                                   !.fromVecs = FALSE,
                                                   !.pushed = <<>>],
                 "live")
    /\ nextRow' = nextRow + 1
    /\ UNCHANGED <<T, vecs, outVecs, result, drops>>
    /\ UNCHANGED lvars

\* a call that moves a row out to the caller
Took(op, i, value) ==
    [Called(op, i, value) EXCEPT
        !.onlyPush = FALSE, !.fromVecs = FALSE, !.pushed = <<>>,
        !.out = @ \cup {value[k] : k \in DOMAIN value}]

Pop ==
    /\ phase = "live"
    /\ IF len = 0
       THEN /\ hist' = [Called("pop", 0, <<>>) EXCEPT !.onlyPush = FALSE,
                                                      !.fromVecs = FALSE,
                                                      !.pushed = <<>>]
            /\ UNCHANGED <<heap, storage, len, capacity>>
       ELSE /\ hist' = Took("pop", len - 1,
                            read(heap, add(as_ptr(storage), len - 1)))
            /\ len' = pop.len
            /\ UNCHANGED <<heap, storage, capacity>>
    /\ UNCHANGED <<T, phase, vecs, outVecs, result, nextRow, drops>>
    /\ UNCHANGED lvars

Remove ==
    /\ phase = "live"
    /\ \E i \in 0 .. len - 1 :
          /\ hist' = Took("remove", i, read(heap, add(as_ptr(storage), i)))
          /\ heap' = remove(i).heap
          /\ len' = remove(i).len
    /\ UNCHANGED <<T, phase, storage, capacity, vecs, outVecs, result,
                   nextRow, drops>>
    /\ UNCHANGED lvars

SwapRemove ==
    /\ phase = "live"
    /\ \E i \in 0 .. len - 1 :
          /\ hist' = Took("swap_remove", i, swap_removed(i))
          /\ heap' = swap_remove(i).heap
          /\ len' = swap_remove(i).len
    /\ UNCHANGED <<T, phase, storage, capacity, vecs, outVecs, result,
                   nextRow, drops>>
    /\ UNCHANGED lvars

Reverse ==
    /\ phase = "live"
    /\ heap' = reverse(heap, as_ptr(storage), len)
    /\ hist' = [Called("reverse", 0, <<>>) EXCEPT
                    !.onlyPush = FALSE, !.fromVecs = FALSE, !.pushed = <<>>,
                    !.unreversed = Rows(heap, storage, len)]
    /\ UNCHANGED <<T, phase, storage, len, capacity, vecs, outVecs, result,
                   nextRow, drops>>
    /\ UNCHANGED lvars

Get ==
    /\ phase = "live"
    /\ \E i \in 0 .. len : hist' = Called("get", i, get(i))
    /\ UNCHANGED <<T, phase, storage, len, capacity, heap, vecs, outVecs,
                   result, nextRow, drops>>
    /\ UNCHANGED lvars

GetMut ==
    /\ phase = "live"
    /\ \E i \in 0 .. len : hist' = Called("get_mut", i, get_mut(i))
    /\ UNCHANGED <<T, phase, storage, len, capacity, heap, vecs, outVecs,
                   result, nextRow, drops>>
    /\ UNCHANGED lvars

\* the container goes out of scope
Drop ==
    /\ phase = "live"
    /\ \E t \in {teardown} :
           /\ phase' = IF t.status = "ok" THEN "dropped" ELSE "panicked"
           /\ heap' = t.heap
           /\ drops' = t.drops
    /\ hist' = Called("drop", len, <<>>)
    /\ UNCHANGED <<T, storage, len, capacity, vecs, outVecs, result, nextRow>>
    /\ UNCHANGED lvars

IntoVecs ==
    /\ phase = "live"
    /\ Len(heap.blocks) + N <= MaxBlocks
    /\ \E c \in {into_vecs} :
           /\ phase' = IF c.status = "ok" THEN "converted" ELSE "panicked"
           /\ heap' = c.heap
           /\ outVecs' = [k \in Fields |-> VecElems(c.heap, c.v[k], T[k])]
    /\ hist' = Called("into_vecs", 0, <<>>)
    /\ UNCHANGED <<T, storage, len, capacity, vecs, result, nextRow, drops>>
    /\ UNCHANGED lvars

Next ==
    \/ New
    \/ WithCapacity
    \/ MakeVecs
    \/ TryFrom
    \/ Push
    \/ Insert
    \/ Pop
    \/ Remove
    \/ SwapRemove
    \/ Reverse
    \/ Get
    \/ GetMut
    \/ Drop
    \/ IntoVecs

Spec == Init /\ [][Next]_vars

-----------------------------------------------------------------------------
(* The layout calculator on its own: every arity, a range of capacities *)

FieldTypes == {ZST, U8, U32}

\* longest repeating pattern of field types a parameter tuple is built from
MaxPattern == 3

\* the tuple of arity n that repeats the pattern pat
Periodic(pat, n) == [k \in 1 .. n |-> pat[((k - 1) % Len(pat)) + 1]]

LayoutParams ==
    {Periodic(pat, n) :
        pat \in UNION {[1 .. m -> FieldTypes] : m \in 1 .. MaxPattern},
        n \in MinArity .. MaxArity}

\* capacities tried: the ordinary ones, and the largest isize and usize
LayoutCaps == (0 .. MaxCap) \cup {IsizeMax, UsizeMax}

LayoutInit ==
    /\ T = <<U8, U16>>
    /\ phase = "start"
    /\ storage = <<>>
    /\ len = 0
    /\ capacity = 0
    /\ heap = EmptyHeap
    /\ vecs = [state |-> "none", v |-> <<>>, input |-> <<>>]
    /\ outVecs = <<>>
    /\ result = "none"
    /\ nextRow = 1
    /\ drops = [e \in AllElems |-> 0]
    /\ hist = NoCall
    /\ lparam \in LayoutParams
    /\ lcap \in LayoutCaps
    /\ lout = [called |-> FALSE, ok |-> FALSE, size |-> 0, align |-> 1,
               offsets |-> <<>>]

LayoutCall ==
    /\ ~lout.called
    /\ LET l == layout_for_capacity(lparam, lcap)
       IN  lout' = [called |-> TRUE, ok |-> l.ok, size |-> l.size,
                    align |-> l.align, offsets |-> l.offsets]
    /\ UNCHANGED <<lparam, lcap>>
    /\ UNCHANGED cvars

LayoutNext == LayoutCall

LayoutSpec == LayoutInit /\ [][LayoutNext]_vars

-----------------------------------------------------------------------------
(* Properties *)

AllocBlocks == {b \in 1 .. Len(heap.blocks) : heap.blocks[b].by = "alloc"}

VecBlocks == {b \in 1 .. Len(heap.blocks) : heap.blocks[b].by = "vec"}

\* the caller's Vecs do not all have the same length
UnevenInput ==
    /\ vecs.state # "none"
    /\ \E k \in DOMAIN vecs.input : Len(vecs.input[k]) # Len(vecs.input[1])

InputElems == {vecs.input[k][i] : <<k, i>> \in
                  {<<k, i>> \in Fields \X (1 .. MaxVecLen) :
                      k \in DOMAIN vecs.input /\ i <= Len(vecs.input[k])}}

\* C1, as the claim has it: after try_from of Vecs of unequal lengths has
\* failed with UnevenLengths, every input Vec is still the caller's, with
\* the same elements in the same order, none of them dropped.
C1_InputsIntactAfterFailure ==
    (hist.op = "try_from" /\ UnevenInput) =>
        /\ result = "UnevenLengths"
        /\ vecs.state = "caller"
        /\ \A k \in Fields : VecElems(heap, vecs.v[k], T[k]) = vecs.input[k]
        /\ \A e \in AllElems : drops[e] = 0

\* C1, amended: try_from of Vecs of unequal lengths fails with
\* UnevenLengths, builds no container and allocates no storage, and the
\* Vecs, taken by value, are dropped as it returns: every element's
\* destructor has run exactly once and every buffer is freed exactly once.
C1_UnevenLengthsConsumesInputs ==
    (hist.op = "try_from" /\ UnevenInput) =>
        /\ result = "UnevenLengths"
        /\ phase = "failed"
        /\ storage = <<>>
        /\ AllocBlocks = {}
        /\ vecs.state = "dropped"
        /\ \A e \in AllElems : drops[e] = IF e \in InputElems THEN 1 ELSE 0
        /\ \A b \in VecBlocks : /\ heap.blocks[b].status = "freed"
                                /\ heap.blocks[b].frees = 1
        /\ ~heap.ub

\* try_from has failed on Vecs of lengths 2 and 1
C1_Witness ==
    /\ hist.op = "try_from"
    /\ result = "UnevenLengths"
    /\ N = 2
    /\ vecs.input = <<(<<1, 2>>), (<<10>>)>>

\* C2: try_from of Vecs of equal length L gives a container of length L
\* whose row i is (a1[i], ..., aN[i]), and turning that container back into
\* Vecs gives the input Vecs, element for element.
C2_RoundTrip ==
    /\ (hist.op = "try_from" /\ result = "Ok") =>
          /\ len = Len(vecs.input[1])
          /\ \A i \in 1 .. Len(vecs.input[1]) :
                get(i - 1) = [k \in Fields |-> vecs.input[k][i]]
    /\ (phase = "converted" /\ hist.fromVecs) => outVecs = vecs.input

\* C3: the container's length never exceeds its capacity.
C3_LengthWithinCapacity == len <= capacity

\* the container is full after a push or an insert that grew it
C3_Witness ==
    /\ phase = "live"
    /\ hist.op \in {"push", "insert"}
    /\ len = 2
    /\ capacity = 2

\* C4: after any sequence of pushes, growth included, get(i) is the i-th
\* pushed row for every i < length, and still is after further gets.
C4_GetReturnsPushedRow ==
    (phase = "live" /\ hist.onlyPush) =>
        /\ len = Len(hist.pushed)
        /\ \A i \in 0 .. len - 1 : get(i) = hist.pushed[i + 1]
        /\ get(len) = <<>>
        /\ (hist.op = "get" /\ hist.idx < len) =>
              hist.ret = hist.pushed[hist.idx + 1]
        /\ ~heap.ub

\* three rows pushed through two growths, and the first one read back
C4_Witness ==
    /\ phase = "live"
    /\ hist.onlyPush
    /\ hist.op = "get"
    /\ hist.idx = 0
    /\ hist.ret = Row(T, 1)
    /\ len = 3
    /\ capacity = 4
    /\ Len(heap.blocks) = 3

\* the sub-region of field k in a layout for capacity cap
RegionEnd(k) == lout.offsets[k] + lcap * lparam[k].size

\* C5, as the claim has it: the offsets layout_for_capacity returns are
\* strictly increasing from offset 0, and the per-field sub-regions are
\* pairwise disjoint and inside the combined layout.
C5_OffsetsStrictlyIncreasing ==
    (lout.called /\ lout.ok) =>
        /\ Len(lout.offsets) = Len(lparam)
        /\ lout.offsets[1] = 0
        /\ \A k \in 1 .. Len(lparam) - 1 : lout.offsets[k] < lout.offsets[k + 1]
        /\ \A j, k \in 1 .. Len(lparam) : j < k => RegionEnd(j) <= lout.offsets[k]
        /\ \A k \in 1 .. Len(lparam) : RegionEnd(k) <= lout.size

\* C5, amended: whenever layout_for_capacity returns, the offsets start at
\* 0 and never decrease, offset k+1 is strictly greater than offset k when
\* field k's sub-region is not empty (capacity > 0 and a field type of
\* non-zero size), and the per-field sub-regions are pairwise disjoint and
\* inside the combined layout.
C5_OffsetsOrdered ==
    (lout.called /\ lout.ok) =>
        /\ Len(lout.offsets) = Len(lparam)
        /\ lout.offsets[1] = 0
        /\ \A k \in 1 .. Len(lparam) - 1 :
              /\ lout.offsets[k] <= lout.offsets[k + 1]
              /\ (lcap > 0 /\ lparam[k].size > 0) =>
                    lout.offsets[k] < lout.offsets[k + 1]
        /\ \A j, k \in 1 .. Len(lparam) : j < k => RegionEnd(j) <= lout.offsets[k]
        /\ \A k \in 1 .. Len(lparam) : RegionEnd(k) <= lout.size

\* a layout of twelve fields for a capacity above 0, with padding in it
C5_Witness ==
    /\ lout.called
    /\ lout.ok
    /\ Len(lparam) = MaxArity
    /\ lcap = 1
    /\ \E k \in 1 .. Len(lparam) - 1 : RegionEnd(k) < lout.offsets[k + 1]

\* C6: when the allocator cannot satisfy alloc's request the operation
\* aborts: no Storage derived from the failed allocation is returned.
C6_AllocFailureAborts ==
    phase \in FailureOutcomes =>
        /\ phase = "aborted"
        /\ ~heap.ub
        /\ \A k \in DOMAIN storage : storage[k].blk # 0 \/ capacity = 0

\* C7: layout_for_capacity does not panic, whatever the capacity.
C7_LayoutNeverPanics == lout.called => lout.ok

\* C8: every allocation alloc handed out is freed at most once, and exactly
\* once by the time the container is torn down; no sentinel is freed and no
\* allocation is freed with another layout or read after it is freed (none
\* of which leaves heap.ub unset); while the container lives, the one live
\* allocation is the one its storage points into, made for its capacity.
C8_AllocationsFreedOnce ==
    phase \notin FailureOutcomes =>
        /\ ~heap.ub
        /\ \A b \in AllocBlocks :
              /\ heap.blocks[b].frees <= 1
              /\ heap.blocks[b].status = "freed" <=> heap.blocks[b].frees = 1
        /\ phase = "live" =>
              /\ {b \in AllocBlocks : heap.blocks[b].status = "live"}
                    = IF capacity > 0 THEN {storage[1].blk} ELSE {}
              /\ capacity > 0 => /\ heap.blocks[storage[1].blk].cap = capacity
                                 /\ storage[1].off = 0
              /\ capacity = 0 => storage = dangling
        /\ phase \in {"dropped", "converted"} =>
              \A b \in AllocBlocks : heap.blocks[b].frees = 1

\* a container torn down after growing twice
C8_Witness ==
    /\ phase = "dropped"
    /\ Cardinality(AllocBlocks) >= 3
    /\ \A b \in AllocBlocks : heap.blocks[b].frees = 1

\* the elements of the live rows [0, len)
LiveElems == {Rows(heap, storage, len)[i][k] : <<i, k>> \in (1 .. len) \X Fields}

\* C9: tearing the container down runs the destructor of every field of
\* every live row exactly once and no other destructor (none for the slack
\* slots, none for a row moved out earlier), and frees at most one
\* allocation.
C9_TeardownDropsLiveRows ==
    [][(phase = "live" /\ phase' = "dropped") =>
          /\ \A e \in AllElems :
                drops'[e] = drops[e] + (IF e \in LiveElems THEN 1 ELSE 0)
          /\ Cardinality(LiveElems) = len * N
          /\ \A e \in hist.out : drops'[e] = 0
          /\ Cardinality({b \in 1 .. Len(heap.blocks) :
                            heap'.blocks[b].frees # heap.blocks[b].frees}) <= 1
          /\ ~heap'.ub]_vars

\* a container torn down with a live row, a slack slot and a row moved out
C9_Witness ==
    /\ phase = "dropped"
    /\ len >= 1
    /\ len < capacity
    /\ hist.out # {}
    /\ \E e \in AllElems : drops[e] = 1

\* C10: swap_remove(i), i < length, takes the length down by one, returns
\* the row that was at i, puts the row that was last at i (unless i was the
\* last index) and leaves every other row where it was.
C10_SwapRemove ==
    [][(phase = "live" /\ hist'.op = "swap_remove" /\ hist' # hist) =>
          LET i    == hist'.idx
              pre  == Rows(heap, storage, len)
              post == Rows(heap', storage', len')
          IN  /\ i < len
              /\ len' = len - 1
              /\ capacity' = capacity
              /\ hist'.ret = pre[i + 1]
              /\ \A j \in 1 .. len' :
                    post[j] = IF j = i + 1 THEN pre[len] ELSE pre[j]
              /\ ~heap'.ub]_vars

\* (1,10), (2,20), (3,30) pushed, then swap_remove(0)
C10_Witness ==
    /\ phase = "live"
    /\ N = 2
    /\ hist.op = "swap_remove"
    /\ hist.idx = 0
    /\ hist.ret = <<1, 10>>
    /\ len = 2
    /\ get(0) = <<3, 30>>
    /\ get(1) = <<2, 20>>

\* C11: remove(i), i < length, takes the length down by one, returns the
\* row that was at i, leaves the rows below i where they were and moves
\* each row that was at j > i to j - 1 with all its fields, so the rows
\* that remain keep their order.
C11_Remove ==
    [][(phase = "live" /\ hist'.op = "remove" /\ hist' # hist) =>
          LET i    == hist'.idx
              pre  == Rows(heap, storage, len)
              post == Rows(heap', storage', len')
          IN  /\ i < len
              /\ len' = len - 1
              /\ capacity' = capacity
              /\ hist'.ret = pre[i + 1]
              /\ \A j \in 1 .. len' :
                    /\ post[j] = IF j <= i THEN pre[j] ELSE pre[j + 1]
                    /\ \A k \in Fields : post[j][k] \in AllElems
              /\ ~heap'.ub]_vars

\* (1,10), (2,20), (3,30) pushed, then remove(0)
C11_Witness ==
    /\ phase = "live"
    /\ N = 2
    /\ hist.op = "remove"
    /\ hist.idx = 0
    /\ hist.ret = <<1, 10>>
    /\ len = 2
    /\ get(0) = <<2, 20>>
    /\ get(1) = <<3, 30>>

\* a sequence of rows back to front
Reversed(rows) == [j \in 1 .. Len(rows) |-> rows[Len(rows) + 1 - j]]

\* C12: one reverse puts the row that was at index i at index
\* length - 1 - i in every field, so the fields at an index are still those
\* of one row; a second reverse right after it gives back the order before
\* the first; length and capacity stay as they were.
C12_Reverse ==
    [][(phase = "live" /\ hist'.op = "reverse") =>
          LET pre  == Rows(heap, storage, len)
              post == Rows(heap', storage', len')
          IN  /\ len' = len
              /\ capacity' = capacity
              /\ storage' = storage
              /\ post = Reversed(pre)
              /\ \A j \in 1 .. len :
                    \E r \in 1 .. MaxRows : post[j] = Row(T, r)
              /\ hist.op = "reverse" => post = hist.unreversed
              /\ ~heap'.ub]_vars

\* (1,10), (2,20), (3,30) pushed and reversed twice
C12_Witness ==
    /\ phase = "live"
    /\ N = 2
    /\ hist.op = "reverse"
    /\ hist.unreversed = <<(<<3, 30>>), (<<2, 20>>), (<<1, 10>>)>>
    /\ Rows(heap, storage, len) = <<(<<1, 10>>), (<<2, 20>>), (<<3, 30>>)>>

\* the step is a push or an insert that grew the container
GrowthStep ==
    /\ phase = "live"
    /\ phase' = "live"
    /\ hist'.op \in {"push", "insert"}
    /\ len = capacity
    /\ storage' # storage

\* C13: the growth inside a push or an insert at length = capacity drops
\* no element and reorders none: the grown container has the length it had
\* and the same row at every index below it, no destructor runs, and the
\* call that grew it leaves those rows in their order around the new one.
C13_GrowthKeepsRows ==
    [][GrowthStep =>
          LET pre  == Rows(heap, storage, len)
              g    == grow(heap, storage, len, capacity, TRUE)
              post == Rows(heap', storage', len')
              at   == IF hist'.op = "push" THEN len ELSE hist'.idx
          IN  /\ g.status = "ok"
              /\ g.len = len
              /\ Rows(g.heap, g.storage, g.len) = pre
              /\ storage' = g.storage
              /\ capacity' = g.capacity
              /\ len' = len + 1
              /\ \A j \in 1 .. len :
                    post[IF j <= at THEN j ELSE j + 1] = pre[j]
              /\ drops' = drops
              /\ ~heap'.ub]_vars

\* a full container of two rows has grown to take a third
C13_Witness ==
    /\ phase = "live"
    /\ hist.op \in {"push", "insert"}
    /\ len = 3
    /\ capacity = 4
    /\ heap.blocks[storage[1].blk].cap = 4
    /\ \E b \in AllocBlocks : heap.blocks[b].cap = 2 /\ heap.blocks[b].frees = 1
    /\ \A j \in 1 .. len : \E r \in 1 .. MaxRows : get(j - 1) = Row(T, r)

\* C14: no push, pop, insert, remove, swap_remove, reverse, get or get_mut
\* lowers the capacity; a push at length = capacity doubles it, with 1 after
\* 0, and every call that does not grow the container leaves it as it was.
C14_CapacityMonotonic ==
    [][(phase = "live" /\ phase' = "live") =>
          /\ capacity' >= capacity
          /\ (hist'.op = "push" /\ nextRow' # nextRow /\ len = capacity) =>
                capacity' = IF capacity = 0 THEN 1 ELSE 2 * capacity
          /\ (hist'.op \in {"push", "insert"} /\ nextRow' # nextRow
                /\ len < capacity) => capacity' = capacity
          /\ hist'.op \in {"pop", "remove", "swap_remove", "reverse", "get",
                            "get_mut"} => capacity' = capacity]_vars

\* a new container has gone 0, 1, 2, 4 over three pushes and has kept the
\* 4 through a removal
C14_Witness ==
    /\ phase = "live"
    /\ capacity = 4
    /\ len = 2
    /\ hist.op \in {"pop", "remove", "swap_remove"}
    /\ {heap.blocks[b].cap : b \in AllocBlocks} = {1, 2, 4}

\* C15: once try_from has returned Ok, every input Vec's buffer is either
\* the container's storage or has been freed; none is left allocated with
\* no owner.
C15_NoLeakOnSuccess ==
    (hist.op = "try_from" /\ result = "Ok") =>
        \A b \in VecBlocks :
           \/ heap.blocks[b].status = "freed"
           \/ capacity > 0 /\ storage[1].blk = b

====
